---------------------------- MODULE Spec2Model ----------------------------
(***************************************************************************)
(* A model of LAB3/prompt_runner.py: the prompt composers zero_shot,       *)
(* one_shot and few_shot, the completion helper ask_groq, the staged       *)
(* workflow run_pipeline (Refine -> Teach/Ask -> Answer -> Verify) and the *)
(* CLI entry point main.                                                   *)
(*                                                                         *)
(* Text is a sequence of tokens.  A token is either one character of       *)
(* caller-supplied or model-generated text ("x" for any non-blank          *)
(* character, " " for a blank) or a chunk: a fixed run of template text    *)
(* that starts and ends with a non-blank character.  "\n" is the newline   *)
(* the f-strings put between the pieces.  Every template is written with   *)
(* one inner blank, because the real templates contain single blanks.      *)
(* The model identifier is passed through to every call unchanged and is   *)
(* left out.                                                               *)
(***************************************************************************)
EXTENDS Integers, Sequences, FiniteSets, TLC

VARIABLES
    pc,              \* position of the control flow in main / run_pipeline
    entry,           \* "main" when run_pipeline was called by main, else "direct"
    menu_input,      \* what the user typed at the mode menu (main only)
    raw_request, refine, teach_ask, include_table, verify, mode,  \* arguments
    task_for_answer, \* local of run_pipeline
    final_task,      \* local of run_pipeline
    prompt,          \* local of run_pipeline: the Answer stage's prompt
    results,         \* local of run_pipeline: the result dict
    calls,           \* the completion requests issued so far, in order
    outstanding,     \* stages whose completion call has not returned yet
    failed,          \* the stage whose call raised, "" if none
    returned         \* what run_pipeline returned to its caller

vars == <<pc, entry, menu_input, raw_request, refine, teach_ask, include_table,
          verify, mode, task_for_answer, final_task, prompt, results, calls,
          outstanding, failed, returned>>

-----------------------------------------------------------------------------
(* Bounds and input sets *)

MaxLen == 2

Chars == {"x", " "}

SeqsUpTo(S, n) == UNION {[1..k -> S] : k \in 0..n}

-----------------------------------------------------------------------------
(* Text helpers *)

Whitespace == {" ", "\n", "\t"}

RECURSIVE LStrip(_)
LStrip(s) ==
    IF s = <<>> THEN <<>>
    ELSE IF Head(s) \in Whitespace THEN LStrip(Tail(s)) ELSE s

RECURSIVE RStrip(_)
RStrip(s) ==
    IF s = <<>> THEN <<>>
    ELSE IF s[Len(s)] \in Whitespace THEN RStrip(SubSeq(s, 1, Len(s) - 1)) ELSE s

\* str.strip()
Strip(s) == LStrip(RStrip(s))

\* Python's  a in b  for strings
IsSubstring(a, b) ==
    \E i \in 0..(Len(b) - Len(a)) : SubSeq(b, i + 1, i + Len(a)) = a

IsPrefix(a, b) == Len(a) <= Len(b) /\ SubSeq(b, 1, Len(a)) = a

IsSuffix(a, b) == Len(a) <= Len(b) /\ SubSeq(b, Len(b) - Len(a) + 1, Len(b)) = a

\* Optional text: None is the empty tuple, a text t is <<t>>
None == <<>>
Some(t) == <<t>>

-----------------------------------------------------------------------------
(* Template library *)

REFINER_PROMPT ==
    <<"QUESTION", " ", "REFINEMENT MODE: ... RGC Prompt (final):">>

TEACH_AND_ASK_PROMPT ==
    <<"TEACH-AND-ASK", " ", "MODE: ... Questions (max 2):">>

VERIFIER_PROMPT ==
    <<"COGNITIVE", " ", "VERIFIER MODE: ... Fix Suggestions: - ...">>

REASONING_VISIBILITY_PROMPT ==
    <<"REASONING", " ", "VISIBILITY MODE ... Production Checklist:">>

TABULAR_INSTRUCTION ==
    <<"Also", " ", "include a comparison table ... Then recommend one option.">>

EXAMPLE_REQUEST ==
    <<"Build", " ", "a RAG chatbot for my college ERP. ... cite sources.">>

\* The fixed text of one_shot before and after the task, as written in the
\* f-string (the literal starts and ends with a newline).
ONE_SHOT_HEAD ==
    <<"\n", "You", " ", "will follow the style of this example. ... alerts.",
      "\n", "\n", "NOW DO THIS TASK:", "\n">>

FEW_SHOT_HEAD ==
    <<"\n", "Follow", " ", "the format and rigor of these examples. ... alerts.",
      "\n", "\n", "NOW DO THIS TASK:", "\n">>

SAME_FORMAT_TAIL == <<"\n", "\n", "Use the same output format.", "\n">>

ZERO_SHOT_HEAD == REASONING_VISIBILITY_PROMPT \o <<"\n", "\n", "Task:", "\n">>

-----------------------------------------------------------------------------
(* Input sets *)

\* Raw requests: every text up to MaxLen characters, and one that quotes the
\* tabular instruction.
RawRequests == SeqsUpTo(Chars, MaxLen) \cup {TABULAR_INSTRUCTION}

\* Texts the completion provider returns: empty, plain, ending in a blank,
\* and one that quotes the tabular instruction.
Responses == {<<>>, <<"x">>, <<"x", " ">>, TABULAR_INSTRUCTION}

\* Values of the mode argument; "other" is any unrecognised value.
Modes == {"few", "one", "zero", "other"}

\* What the user types at the mode menu.
MenuInputs == {<<>>, <<"1">>, <<"2">>, <<"3">>, <<"9">>, <<" ", "2">>}

Stages == <<"Refine", "TeachAsk", "Answer", "Verify">>

-----------------------------------------------------------------------------
(* Prompt composers *)

\* zero_shot with the task put before the instructions
zero_shot_TaskFirst(task) == Strip(task \o <<"\n", "\n">> \o ZERO_SHOT_HEAD)

zero_shot(task) == Strip(ZERO_SHOT_HEAD \o task)

one_shot(task) == Strip(ONE_SHOT_HEAD \o task \o SAME_FORMAT_TAIL)

few_shot(task) == Strip(FEW_SHOT_HEAD \o task \o SAME_FORMAT_TAIL)

\* the dispatch with zero_shot as its else branch
SelectPrompt_ElseZero(m, task) ==
    IF m = "one" THEN one_shot(task)
    ELSE IF m = "few" THEN few_shot(task)
    ELSE zero_shot(task)

\* run_pipeline's dispatch on mode
SelectPrompt(m, task) ==
    IF m = "one" THEN one_shot(task)
    ELSE IF m = "zero" THEN zero_shot(task)
    ELSE few_shot(task)

\* final_task with the tabular instruction appended whatever the flag says
FinalTask_AlwaysTable(task, table) ==
    task \o <<"\n", "\n">> \o TABULAR_INSTRUCTION

\* run_pipeline's final_task
FinalTask(task, table) ==
    task \o (IF table THEN <<"\n", "\n">> \o TABULAR_INSTRUCTION ELSE <<>>)

RefinePrompt(raw) == REFINER_PROMPT \o <<"\n", "\n", "User request:", "\n">> \o raw

TeachPrompt(task) == TEACH_AND_ASK_PROMPT \o <<"\n", "\n", "Context:", "\n">> \o task

VerifyPrompt(answer) ==
    VERIFIER_PROMPT \o <<"\n", "\n", "Answer to verify:", "\n">> \o answer

\* main's menu: choice = input().strip() or "3"; {...}.get(choice, "few")
MenuMode(typed) ==
    LET choice == IF Strip(typed) = <<>> THEN <<"3">> ELSE Strip(typed)
    IN  IF choice = <<"1">> THEN "zero"
        ELSE IF choice = <<"2">> THEN "one"
        ELSE IF choice = <<"3">> THEN "few"
        ELSE "few"

\* main's request: raw = input().strip(), the example when that is empty
MainRequest(typed) == IF Strip(typed) = <<>> THEN EXAMPLE_REQUEST ELSE Strip(typed)

-----------------------------------------------------------------------------
(* State machine *)

EmptyResults == [refined |-> None, teach_ask |-> None, answer |-> None, verifier |-> None]

Init ==
    /\ pc = "idle"
    /\ entry = "none"
    /\ menu_input = <<>>
    /\ raw_request = <<>>
    /\ refine = FALSE
    /\ teach_ask = FALSE
    /\ include_table = FALSE
    /\ verify = FALSE
    /\ mode = "few"
    /\ task_for_answer = <<>>
    /\ final_task = <<>>
    /\ prompt = <<>>
    /\ results = EmptyResults
    /\ calls = <<>>
    /\ outstanding = {}
    /\ failed = ""
    /\ returned = None

\* The entry of run_pipeline: results dict and task_for_answer = raw_request
Enter(how, typed, raw, r, t, tab, v, m) ==
    /\ pc = "idle"
    /\ pc' = "step1"
    /\ entry' = how
    /\ menu_input' = typed
    /\ raw_request' = raw
    /\ refine' = r
    /\ teach_ask' = t
    /\ include_table' = tab
    /\ verify' = v
    /\ mode' = m
    /\ results' = EmptyResults
    /\ task_for_answer' = raw
    /\ UNCHANGED <<final_task, prompt, calls, outstanding, failed, returned>>

\* A caller invokes run_pipeline with arguments of its choice
RunPipeline ==
    \E raw \in RawRequests, r, t, tab, v \in BOOLEAN, m \in Modes :
        Enter("direct", <<>>, raw, r, t, tab, v, m)

\* main: read the request and the menu choice, call run_pipeline with all
\* stages enabled
Main ==
    \E typed_request \in RawRequests, typed_choice \in MenuInputs :
        Enter("main", typed_choice, MainRequest(typed_request),
              TRUE, TRUE, TRUE, TRUE, MenuMode(typed_choice))

\* ask_groq up to the blocking provider call (temperature in tenths)
Issue(stage, text, temp, wait) ==
    /\ calls' = Append(calls, [stage |-> stage, prompt |-> text, temperature |-> temp])
    /\ outstanding' = outstanding \cup {stage}
    /\ pc' = wait

\* the failure is caught and the pipeline goes on with the next step
Raise_Swallowed(stage, wait) ==
    /\ pc = wait
    /\ pc' = (CASE stage = "Refine" -> "step2"
                [] stage = "TeachAsk" -> "step3"
                [] stage = "Answer" -> "raised"
                [] OTHER -> "raised")
    /\ failed' = stage
    /\ outstanding' = outstanding \ {stage}
    /\ UNCHANGED <<entry, menu_input, raw_request, refine, teach_ask, include_table,
                   verify, mode, task_for_answer, final_task, prompt, results,
                   calls, returned>>

\* the failed call is issued once more before the error is given up on
Raise_Retry(stage, wait) ==
    /\ pc = wait
    /\ \/ /\ Len(calls) < 5
          /\ calls' = Append(calls, calls[Len(calls)])
          /\ UNCHANGED <<pc, failed, outstanding>>
       \/ /\ pc' = "raised"
          /\ failed' = stage
          /\ outstanding' = outstanding \ {stage}
          /\ UNCHANGED calls
    /\ UNCHANGED <<entry, menu_input, raw_request, refine, teach_ask, include_table,
                   verify, mode, task_for_answer, final_task, prompt, results,
                   returned>>

\* the provider call raises: nothing in run_pipeline or main catches it
Raise(stage, wait) ==
    /\ pc = wait
    /\ pc' = "raised"
    /\ failed' = stage
    /\ outstanding' = outstanding \ {stage}
    /\ UNCHANGED <<entry, menu_input, raw_request, refine, teach_ask, include_table,
                   verify, mode, task_for_answer, final_task, prompt, results,
                   calls, returned>>

\* the Refine call is issued and not waited for
RefineStep_NoWait ==
    /\ pc = "step1"
    /\ IF refine
       THEN Issue("Refine", RefinePrompt(raw_request), 1, "step2")
       ELSE pc' = "step2" /\ UNCHANGED <<calls, outstanding>>
    /\ UNCHANGED <<entry, menu_input, raw_request, refine, teach_ask, include_table,
                   verify, mode, task_for_answer, final_task, prompt, results,
                   failed, returned>>

\* Step 1: Refine
RefineStep ==
    /\ pc = "step1"
    /\ IF refine
       THEN Issue("Refine", RefinePrompt(raw_request), 1, "refine_wait")
       ELSE pc' = "step2" /\ UNCHANGED <<calls, outstanding>>
    /\ UNCHANGED <<entry, menu_input, raw_request, refine, teach_ask, include_table,
                   verify, mode, task_for_answer, final_task, prompt, results,
                   failed, returned>>

RefineReturn ==
    /\ pc = "refine_wait"
    /\ \E refined \in Responses :
        /\ results' = [results EXCEPT !.refined = Some(refined)]
        /\ task_for_answer' = refined
    /\ outstanding' = outstanding \ {"Refine"}
    /\ pc' = "step2"
    /\ UNCHANGED <<entry, menu_input, raw_request, refine, teach_ask, include_table,
                   verify, mode, final_task, prompt, calls, failed, returned>>

RefineRaise == Raise("Refine", "refine_wait")

\* Step 2: Teach + Ask
TeachStep ==
    /\ pc = "step2"
    /\ IF teach_ask
       THEN Issue("TeachAsk", TeachPrompt(task_for_answer), 2, "teach_wait")
       ELSE pc' = "step3" /\ UNCHANGED <<calls, outstanding>>
    /\ UNCHANGED <<entry, menu_input, raw_request, refine, teach_ask, include_table,
                   verify, mode, task_for_answer, final_task, prompt, results,
                   failed, returned>>

\* the Teach-and-Ask text is threaded forward as the task
TeachReturn_FeedsAnswer ==
    /\ pc = "teach_wait"
    /\ \E teach \in Responses :
        /\ results' = [results EXCEPT !.teach_ask = Some(teach)]
        /\ task_for_answer' = teach
    /\ outstanding' = outstanding \ {"TeachAsk"}
    /\ pc' = "step3"
    /\ UNCHANGED <<entry, menu_input, raw_request, refine, teach_ask, include_table,
                   verify, mode, final_task, prompt, calls, failed, returned>>

\* the Teach-and-Ask text is dropped instead of stored
TeachReturn_NotStored ==
    /\ pc = "teach_wait"
    /\ outstanding' = outstanding \ {"TeachAsk"}
    /\ pc' = "step3"
    /\ UNCHANGED <<entry, menu_input, raw_request, refine, teach_ask, include_table,
                   verify, mode, task_for_answer, final_task, prompt, results,
                   calls, failed, returned>>

TeachReturn ==
    /\ pc = "teach_wait"
    /\ \E teach \in Responses :
        results' = [results EXCEPT !.teach_ask = Some(teach)]
    /\ outstanding' = outstanding \ {"TeachAsk"}
    /\ pc' = "step3"
    /\ UNCHANGED <<entry, menu_input, raw_request, refine, teach_ask, include_table,
                   verify, mode, task_for_answer, final_task, prompt, calls,
                   failed, returned>>

TeachRaise == Raise("TeachAsk", "teach_wait")

\* Step 3: Answer
AnswerStep ==
    /\ pc = "step3"
    /\ final_task' = FinalTask(task_for_answer, include_table)
    /\ prompt' = SelectPrompt(mode, final_task')
    /\ Issue("Answer", prompt', 2, "answer_wait")
    /\ UNCHANGED <<entry, menu_input, raw_request, refine, teach_ask, include_table,
                   verify, mode, task_for_answer, results, failed, returned>>

AnswerReturn ==
    /\ pc = "answer_wait"
    /\ \E answer \in Responses :
        results' = [results EXCEPT !.answer = Some(answer)]
    /\ outstanding' = outstanding \ {"Answer"}
    /\ pc' = "step4"
    /\ UNCHANGED <<entry, menu_input, raw_request, refine, teach_ask, include_table,
                   verify, mode, task_for_answer, final_task, prompt, calls,
                   failed, returned>>

AnswerRaise == Raise("Answer", "answer_wait")

\* return results
ReturnResults ==
    /\ returned' = Some(results')
    /\ pc' = "done"

\* Step 4: Verify
VerifyStep ==
    /\ pc = "step4"
    /\ IF verify
       THEN /\ Issue("Verify", VerifyPrompt(results.answer[1]), 1, "verify_wait")
            /\ UNCHANGED <<results, returned>>
       ELSE /\ results' = results
            /\ ReturnResults
            /\ UNCHANGED <<calls, outstanding>>
    /\ UNCHANGED <<entry, menu_input, raw_request, refine, teach_ask, include_table,
                   verify, mode, task_for_answer, final_task, prompt, failed>>

VerifyReturn ==
    /\ pc = "verify_wait"
    /\ \E verifier \in Responses :
        results' = [results EXCEPT !.verifier = Some(verifier)]
    /\ outstanding' = outstanding \ {"Verify"}
    /\ ReturnResults
    /\ UNCHANGED <<entry, menu_input, raw_request, refine, teach_ask, include_table,
                   verify, mode, task_for_answer, final_task, prompt, calls, failed>>

VerifyRaise == Raise("Verify", "verify_wait")

Next ==
    \/ RunPipeline
    \/ Main
    \/ RefineStep
    \/ RefineReturn
    \/ RefineRaise
    \/ TeachStep
    \/ TeachReturn
    \/ TeachRaise
    \/ AnswerStep
    \/ AnswerReturn
    \/ AnswerRaise
    \/ VerifyStep
    \/ VerifyReturn
    \/ VerifyRaise

Spec == Init /\ [][Next]_vars

-----------------------------------------------------------------------------
(* Vocabulary of the properties *)

Rank(stage) == CHOOSE i \in 1..Len(Stages) : Stages[i] = stage

Enabled(stage) ==
    CASE stage = "Refine" -> refine
      [] stage = "TeachAsk" -> teach_ask
      [] stage = "Answer" -> TRUE
      [] stage = "Verify" -> verify

CallsOf(stage) == {i \in 1..Len(calls) : calls[i].stage = stage}

Called(stage) == CallsOf(stage) # {}

Recognised == {"zero", "one", "few"}

\* the fixed text a mode's composer writes before the task
FixedHeadOf(m) ==
    IF m = "one" THEN ONE_SHOT_HEAD
    ELSE IF m = "zero" THEN ZERO_SHOT_HEAD
    ELSE FEW_SHOT_HEAD

\* the text the Teach-and-Ask and Answer stages are to work on
Source == IF refine THEN results.refined[1] ELSE raw_request

EnabledCount ==
    (IF refine THEN 1 ELSE 0) + (IF teach_ask THEN 1 ELSE 0) + (IF verify THEN 1 ELSE 0)

\* the Answer prompt as a function of the request, the refine flag and
\* response, the table flag and the mode, and of nothing else
AnswerPromptOf(raw, r, refined, table, m) ==
    SelectPrompt(m, FinalTask(IF r THEN refined[1] ELSE raw, table))

-----------------------------------------------------------------------------
(* C1 *)

\* C1: the completion calls are issued in the order Refine, Teach-and-Ask,
\* Answer, Verify, only for enabled stages, each only after the call before
\* it has returned; at most one call is outstanding at any time.
C1_SequentialOrder ==
    /\ \A i, j \in 1..Len(calls) :
          i < j => Rank(calls[i].stage) < Rank(calls[j].stage)
    /\ \A i \in 1..Len(calls) : Enabled(calls[i].stage)
    /\ Cardinality(outstanding) <= 1
    /\ \A s \in outstanding : calls # <<>> /\ calls[Len(calls)].stage = s

C1_Witness ==
    /\ Len(calls) = 4
    /\ outstanding = {"Verify"}
    /\ pc = "verify_wait"

-----------------------------------------------------------------------------
(* C2 *)

\* C2: once the call of a stage has failed the run is over: the failed call
\* is the last one issued and was issued once, no later stage is called (a
\* failed Refine means no Teach-and-Ask and no Answer call), and nothing is
\* returned to the caller.
C2_FailureAborts ==
    failed # "" =>
        /\ pc = "raised"
        /\ returned = None
        /\ outstanding = {}
        /\ Cardinality(CallsOf(failed)) = 1
        /\ calls[Len(calls)].stage = failed
        /\ \A i \in 1..Len(calls) : Rank(calls[i].stage) <= Rank(failed)
        /\ failed = "Refine" => ~Called("TeachAsk") /\ ~Called("Answer")

C2_Witness ==
    /\ failed = "Refine"
    /\ teach_ask /\ verify
    /\ pc = "raised"
    /\ Len(calls) = 1

-----------------------------------------------------------------------------
(* C3 *)

\* C3: the prompt sent to the Answer stage is a function of the raw request,
\* the refine flag, the Refine response, include_table and mode alone; so two
\* runs that agree on these and differ in teach_ask, or in what Teach-and-Ask
\* returned, send the same Answer prompt.
C3_TeachAskDoesNotReachAnswer ==
    \A i \in CallsOf("Answer") :
        calls[i].prompt =
            AnswerPromptOf(raw_request, refine, results.refined, include_table, mode)

C3_Witness ==
    /\ Called("Answer")
    /\ teach_ask
    /\ results.teach_ask = Some(TABULAR_INSTRUCTION)
    /\ ~include_table
    /\ ~IsSubstring(TABULAR_INSTRUCTION, prompt)

-----------------------------------------------------------------------------
(* C4 *)

-----------------------------------------------------------------------------
(* C5 *)

\* C5 as stated: the Answer prompt contains the tabular instruction when
\* include_table is True and does not contain it when include_table is False.
C5_TableIffFlagAsStated ==
    \A i \in CallsOf("Answer") :
        include_table <=> IsSubstring(TABULAR_INSTRUCTION, calls[i].prompt)

\* C5 (amended): the Answer prompt contains the tabular instruction when
\* include_table is True; when include_table is False it contains it only if
\* the task text itself (the raw request, or the Refine response when Refine
\* ran) contains it.
C5_TableInstruction ==
    \A i \in CallsOf("Answer") :
        /\ include_table => IsSubstring(TABULAR_INSTRUCTION, calls[i].prompt)
        /\ ~include_table =>
              (IsSubstring(TABULAR_INSTRUCTION, calls[i].prompt)
                  <=> IsSubstring(TABULAR_INSTRUCTION, Source))

C5_Witness ==
    /\ Called("Answer")
    /\ ~include_table
    /\ ~refine
    /\ raw_request = TABULAR_INSTRUCTION
    /\ IsSubstring(TABULAR_INSTRUCTION, prompt)

-----------------------------------------------------------------------------
(* C6 *)

\* C6: when run_pipeline returns, it returns the result dict, in which
\* refined, teach_ask and verifier are set exactly when their flag was
\* enabled and answer is always set.
C6_SlotsMatchFlags ==
    pc = "done" =>
        /\ returned = Some(results)
        /\ (results.refined # None) <=> refine
        /\ (results.teach_ask # None) <=> teach_ask
        /\ (results.verifier # None) <=> verify
        /\ results.answer # None

C6_Witness ==
    /\ pc = "done"
    /\ ~verify /\ ~refine /\ teach_ask
    /\ results.verifier = None
    /\ results.answer # None

-----------------------------------------------------------------------------
(* C7 *)

\* C7: the Teach-and-Ask prompt and the Answer prompt embed, unmodified, the
\* Refine output if Refine ran and the raw request otherwise; the Verify
\* prompt is the verifier template followed by exactly the Answer stage's
\* returned text.
C7_StagesEmbedEarlierText ==
    /\ \A i \in CallsOf("TeachAsk") :
          /\ IsSuffix(Source, calls[i].prompt)
          /\ calls[i].prompt = TeachPrompt(Source)
    /\ \A i \in CallsOf("Answer") : IsSubstring(Source, calls[i].prompt)
    /\ \A i \in CallsOf("Verify") : calls[i].prompt = VerifyPrompt(results.answer[1])

-----------------------------------------------------------------------------
(* C8 *)

\* C8: with a mode that is none of "zero", "one", "few" the Answer call is
\* issued with the prompt few_shot composes; in main, a menu input that is
\* (surrounding whitespace aside) none of 1, 2, 3 selects few.
C8_UnknownModeIsFew ==
    /\ (mode \notin Recognised /\ pc \notin {"idle", "step1", "refine_wait", "step2",
                                              "teach_wait", "step3"}
           /\ failed \notin {"Refine", "TeachAsk"}) =>
          /\ Called("Answer")
          /\ \A i \in CallsOf("Answer") : calls[i].prompt = few_shot(final_task)
    /\ (entry = "main" /\ Strip(menu_input) \notin {<<"1">>, <<"2">>, <<"3">>}) =>
          mode = "few"

C8_Witness ==
    /\ mode = "other"
    /\ pc = "answer_wait"
    /\ ~include_table
    /\ IsPrefix(Tail(FEW_SHOT_HEAD), prompt)

-----------------------------------------------------------------------------
(* C9 *)

\* C9: when refine is False the prompt sent to the Answer stage contains the
\* raw request as an unmodified substring.
C9_RawRequestUnmodified ==
    (~refine /\ entry # "none") =>
        /\ task_for_answer = raw_request
        /\ \A i \in CallsOf("Answer") : IsSubstring(raw_request, calls[i].prompt)

-----------------------------------------------------------------------------
(* C10 *)

\* C10: each stage issues at most one completion call; a run that has got
\* past the Answer step without an earlier failure has issued the Answer
\* call; a run that returns has issued 1 + (number of enabled flags among
\* refine, teach_ask, verify) calls.
C10_CallCounts ==
    /\ \A i \in 1..Len(Stages) : Cardinality(CallsOf(Stages[i])) <= 1
    /\ (pc \in {"answer_wait", "step4", "verify_wait", "done"}
          \/ failed \in {"Answer", "Verify"}) => Called("Answer")
    /\ pc = "done" => Len(calls) = 1 + EnabledCount

C10_Witness ==
    /\ pc = "done"
    /\ refine /\ ~teach_ask /\ verify
    /\ Len(calls) = 3

=============================================================================
